---- MODULE Spec2Model ----
(***************************************************************************)
(* Model of huffman/util.py: the tree-driven Huffman codec.               *)
(*   compress(tree, uncompressed, compressed)                              *)
(*   decompress(compressed, uncompressed) with decode_byte(tree, reader)   *)
(* The collaborators bitio (BitReader/BitWriter), huffman (TreeLeaf,       *)
(* TreeBranch, make_encoding_table) and pickle are modelled from their     *)
(* documented contracts.                                                   *)
(***************************************************************************)
EXTENDS Integers, Sequences, FiniteSets, TLC

\* ---------------------------------------------------------------- bounds
MaxByte == 1
MaxLeaves == 3
MaxLen == 3
MaxBits == 4

\* ---------------------------------------------------------------- values
\* The value stored in the end-of-stream leaf, and the value decode_byte
\* returns on EOFError (Python's None); distinct from every byte.
None == -1

Bytes == 0..MaxByte
Sym == Bytes \cup {None}
Bit == {0, 1}

\* huffman.TreeLeaf / huffman.TreeBranch
TreeLeaf(v) == [kind |-> "leaf", value |-> v]
TreeBranch(l, r) == [kind |-> "branch", left |-> l, right |-> r]
IsLeaf(t) == t.kind = "leaf"

RECURSIVE Leaves(_)
Leaves(t) == IF IsLeaf(t) THEN <<t.value>> ELSE Leaves(t.left) \o Leaves(t.right)

RECURSIVE TreesN(_)
TreesN(n) ==
    IF n = 1 THEN {TreeLeaf(v) : v \in Sym}
    ELSE UNION {{TreeBranch(l, r) : l \in TreesN(k), r \in TreesN(n - k)} : k \in 1..(n - 1)}

UniqueLeaves(t) ==
    \A i, j \in 1..Len(Leaves(t)) : Leaves(t)[i] = Leaves(t)[j] => i = j

\* The trees a caller can hand to compress / pickle into a stream: strict
\* binary trees with pairwise distinct leaf values.
Trees == {t \in UNION {TreesN(n) : n \in 1..MaxLeaves} : UniqueLeaves(t)}

\* A valid prefix tree additionally has (exactly) one end-of-stream leaf.
ValidTree(t) == UniqueLeaves(t) /\ \E i \in 1..Len(Leaves(t)) : Leaves(t)[i] = None

RECURSIVE SeqsUpTo(_, _)
SeqsUpTo(A, n) ==
    IF n = 0 THEN {<<>>}
    ELSE SeqsUpTo(A, n - 1) \cup {Append(s, a) : s \in {q \in SeqsUpTo(A, n - 1) : Len(q) = n - 1}, a \in A}

\* ------------------------------------------------------- huffman module
EmptyTable == [x \in {} |-> <<>>]

\* Variant: the right subtree is entered with path + (False,) as well.
RECURSIVE recurse_SamePath(_, _)
recurse_SamePath(t, path) ==
    IF IsLeaf(t) THEN (t.value :> path)
    ELSE recurse_SamePath(t.right, Append(path, FALSE)) @@ recurse_SamePath(t.left, Append(path, FALSE))

make_encoding_table_SamePath(t) == recurse_SamePath(t, <<>>)

\* huffman.make_encoding_table: depth-first, left with path + (False,),
\* right with path + (True,); a leaf stores table[value] = path (a later
\* store to the same key overwrites the earlier one).
RECURSIVE recurse(_, _)
recurse(t, path) ==
    IF IsLeaf(t) THEN (t.value :> path)
    ELSE recurse(t.right, Append(path, TRUE)) @@ recurse(t.left, Append(path, FALSE))

make_encoding_table(t) == recurse(t, <<>>)

\* ---------------------------------------------------------- bitio module
\* BitWriter.writebit for each element of a path: True -> 1, False -> 0.
RECURSIVE writebits_path(_, _)
writebits_path(bits, path) ==
    IF path = <<>> THEN bits
    ELSE writebits_path(Append(bits, IF Head(path) THEN 1 ELSE 0), Tail(path))

\* BitWriter.flush: pad the current partial byte with zero bits.
RECURSIVE flush(_)
flush(bits) == IF Len(bits) % 8 = 0 THEN bits ELSE flush(Append(bits, 0))

\* ---------------------------------------------------------------- state
VARIABLES
    tree,         \* the Huffman tree given to compress / pickled in the stream
    input,        \* bytes of the stream 'uncompressed' read by compress
    cpc,          \* compress: "start", "loop", "done", "KeyError", "none"
    ipos,         \* compress: bytes consumed by reader.readbits(8)
    table,        \* compress: huffman.make_encoding_table(tree)
    ctree,        \* pickled trees written to 'compressed'
    cbits,        \* bits written to 'compressed' through the BitWriter
    stream,       \* the bits following the pickled tree that decompress reads
    dpc,          \* decompress: "idle", "start", "decode", "loop", "done",
                  \*             "AttributeError"
    rpos,         \* decompress: bits consumed from the BitReader
    tree_part,    \* decode_byte: current node
    end_of_file,  \* decode_byte: EOFError was caught
    curPath,      \* decode_byte: bits read so far in the current call
    byte,         \* decompress: last value returned by decode_byte
    output        \* bytes written to 'uncompressed' by decompress

vars == <<tree, input, cpc, ipos, table, ctree, cbits, stream, dpc, rpos,
          tree_part, end_of_file, curPath, byte, output>>

cvars == <<cpc, ipos, table, ctree, cbits>>
dvars == <<dpc, rpos, tree_part, end_of_file, curPath, byte, output>>

\* 'byte' before the first decode_byte call has returned.
NoByte == -2

DecompressIdle ==
    /\ rpos = 0
    /\ tree_part = tree
    /\ end_of_file = FALSE
    /\ curPath = <<>>
    /\ byte = NoByte
    /\ output = <<>>

Init ==
    /\ tree \in Trees
    /\ input \in SeqsUpTo(Bytes, MaxLen)
    /\ cpc = "start"
    /\ ipos = 0
    /\ table = EmptyTable
    /\ ctree = <<>>
    /\ cbits = <<>>
    /\ stream = <<>>
    /\ dpc = "idle"
    /\ DecompressIdle

\* ------------------------------------------------------------- compress
\* util.py 124-135: write_tree, make_encoding_table, open writer/reader.
CompressStart ==
    /\ cpc = "start"
    /\ ctree' = Append(ctree, tree)
    /\ table' = make_encoding_table(tree)
    /\ cpc' = "loop"
    /\ UNCHANGED <<tree, input, ipos, cbits, stream>>
    /\ UNCHANGED dvars

\* Variant: the handler catches every exception, so a missing table entry
\* is handled like the end of the input.
CompressByte_Swallow ==
    /\ cpc = "loop"
    /\ ipos < Len(input)
    /\ ipos' = ipos + 1
    /\ IF input[ipos + 1] \in DOMAIN table
       THEN /\ cbits' = writebits_path(cbits, table[input[ipos + 1]])
            /\ cpc' = "loop"
       ELSE IF None \in DOMAIN table
       THEN /\ cbits' = flush(writebits_path(cbits, table[None]))
            /\ cpc' = "done"
       ELSE /\ cbits' = cbits
            /\ cpc' = "KeyError"
    /\ UNCHANGED <<tree, input, table, ctree, stream>>
    /\ UNCHANGED dvars

\* util.py 136-144: one iteration in which readbits(8) succeeds.  A byte
\* without a table entry raises KeyError, which 'except EOFError' does not
\* catch: it leaves compress.
CompressByte ==
    /\ cpc = "loop"
    /\ ipos < Len(input)
    /\ ipos' = ipos + 1
    /\ IF input[ipos + 1] \in DOMAIN table
       THEN /\ cbits' = writebits_path(cbits, table[input[ipos + 1]])
            /\ cpc' = "loop"
       ELSE /\ cbits' = cbits
            /\ cpc' = "KeyError"
    /\ UNCHANGED <<tree, input, table, ctree, stream>>
    /\ UNCHANGED dvars

\* Variant: the handler ends the loop without writing table[None].
CompressEOF_NoSentinel ==
    /\ cpc = "loop"
    /\ ipos = Len(input)
    /\ IF None \in DOMAIN table
       THEN /\ cbits' = flush(cbits)
            /\ cpc' = "done"
       ELSE /\ cbits' = cbits
            /\ cpc' = "KeyError"
    /\ UNCHANGED <<tree, input, ipos, table, ctree, stream>>
    /\ UNCHANGED dvars

\* Variant: writer.flush() is missing.
CompressEOF_NoFlush ==
    /\ cpc = "loop"
    /\ ipos = Len(input)
    /\ IF None \in DOMAIN table
       THEN /\ cbits' = writebits_path(cbits, table[None])
            /\ cpc' = "done"
       ELSE /\ cbits' = cbits
            /\ cpc' = "KeyError"
    /\ UNCHANGED <<tree, input, ipos, table, ctree, stream>>
    /\ UNCHANGED dvars

\* util.py 153-163: readbits(8) raises EOFError; the handler writes
\* table[None] and ends the loop; then writer.flush().  A tree without an
\* end-of-stream leaf raises KeyError inside the handler.
CompressEOF ==
    /\ cpc = "loop"
    /\ ipos = Len(input)
    /\ IF None \in DOMAIN table
       THEN /\ cbits' = flush(writebits_path(cbits, table[None]))
            /\ cpc' = "done"
       ELSE /\ cbits' = cbits
            /\ cpc' = "KeyError"
    /\ UNCHANGED <<tree, input, ipos, table, ctree, stream>>
    /\ UNCHANGED dvars

\* ------------------------------------------------ the compressed stream
\* The artifact written by compress is handed to decompress: all of it
\* (k = Len(cbits)) or only its first k payload bits (a truncated stream).
Transfer ==
    /\ cpc = "done"
    /\ dpc = "idle"
    /\ \E k \in 0..Len(cbits) : stream' = SubSeq(cbits, 1, k)
    /\ dpc' = "start"
    /\ UNCHANGED <<tree, input, rpos, tree_part, end_of_file, curPath, byte, output>>
    /\ UNCHANGED cvars

\* ----------------------------------------------------------- decompress
\* util.py 22: pickle.load reconstructs the tree written by write_tree.
read_tree(tree_stream) == Head(tree_stream)

\* huffman.TreeBranch.getLeft / getRight
getLeft(t) == t.left
getRight(t) == t.right

\* util.py 74-86: read the tree, open reader/writer, first decode_byte call
\* (line 39: tree_part = tree).
DecompressStart ==
    /\ dpc = "start"
    /\ tree_part' = read_tree(ctree)
    /\ end_of_file' = FALSE
    /\ curPath' = <<>>
    /\ dpc' = "decode"
    /\ UNCHANGED <<tree, input, stream, rpos, byte, output>>
    /\ UNCHANGED cvars

\* Variant: EOFError is not caught in decode_byte and leaves decompress.
DecodeEOF_Raise ==
    /\ dpc = "decode"
    /\ rpos = Len(stream)
    /\ dpc' = "EOFError"
    /\ UNCHANGED <<tree, input, stream, rpos, tree_part, end_of_file, curPath, byte, output>>
    /\ UNCHANGED cvars

\* util.py 56-59: readbit raises EOFError; decode_byte returns None.
DecodeEOF ==
    /\ dpc = "decode"
    /\ rpos = Len(stream)
    /\ end_of_file' = TRUE
    /\ byte' = None
    /\ dpc' = "loop"
    /\ UNCHANGED <<tree, input, stream, rpos, tree_part, curPath, output>>
    /\ UNCHANGED cvars

\* Variant: the branches are exchanged (0 = right, 1 = left).
DecodeBit_Swapped ==
    /\ dpc = "decode"
    /\ rpos < Len(stream)
    /\ rpos' = rpos + 1
    /\ curPath' = Append(curPath, stream[rpos + 1])
    /\ IF IsLeaf(tree_part)
       THEN /\ dpc' = "AttributeError"
            /\ UNCHANGED <<tree_part, byte>>
       ELSE LET bit == stream[rpos + 1]
                next == IF bit = 0 THEN tree_part.right
                        ELSE IF bit = 1 THEN tree_part.left
                        ELSE tree_part
            IN  IF IsLeaf(next)
                THEN /\ byte' = next.value
                     /\ tree_part' = Head(ctree)
                     /\ dpc' = "loop"
                ELSE /\ tree_part' = next
                     /\ dpc' = "decode"
                     /\ byte' = byte
    /\ UNCHANGED <<tree, input, stream, end_of_file, output>>
    /\ UNCHANGED cvars

\* Variant: 'tree_part = tree' is executed on every iteration, not only
\* when a leaf is returned.
DecodeBit_ResetRoot ==
    /\ dpc = "decode"
    /\ rpos < Len(stream)
    /\ rpos' = rpos + 1
    /\ curPath' = Append(curPath, stream[rpos + 1])
    /\ IF IsLeaf(tree_part)
       THEN /\ dpc' = "AttributeError"
            /\ UNCHANGED <<tree_part, byte>>
       ELSE LET bit == stream[rpos + 1]
                next == IF bit = 0 THEN tree_part.left
                        ELSE IF bit = 1 THEN tree_part.right
                        ELSE tree_part
            IN  IF IsLeaf(next)
                THEN /\ byte' = next.value
                     /\ tree_part' = Head(ctree)
                     /\ dpc' = "loop"
                ELSE /\ tree_part' = Head(ctree)
                     /\ dpc' = "decode"
                     /\ byte' = byte
    /\ UNCHANGED <<tree, input, stream, end_of_file, output>>
    /\ UNCHANGED cvars

\* util.py 42-54: one loop iteration in which readbit succeeds.  The bit is
\* read before the node is inspected; a TreeLeaf has no getLeft/getRight, so
\* stepping from a leaf raises AttributeError, which is not caught.
DecodeBit ==
    /\ dpc = "decode"
    /\ rpos < Len(stream)
    /\ rpos' = rpos + 1
    /\ curPath' = Append(curPath, stream[rpos + 1])
    /\ IF IsLeaf(tree_part)
       THEN /\ dpc' = "AttributeError"
            /\ UNCHANGED <<tree_part, byte>>
       ELSE LET bit == stream[rpos + 1]
                next == IF bit = 0 THEN getLeft(tree_part)
                        ELSE IF bit = 1 THEN getRight(tree_part)
                        ELSE tree_part
            IN  IF IsLeaf(next)
                THEN /\ byte' = next.value
                     /\ tree_part' = read_tree(ctree)
                     /\ dpc' = "loop"
                ELSE /\ tree_part' = next
                     /\ dpc' = "decode"
                     /\ byte' = byte
    /\ UNCHANGED <<tree, input, stream, end_of_file, output>>
    /\ UNCHANGED cvars

\* Variant: the loop goes on until the bit source is exhausted; the value of
\* the end-of-stream leaf is written like a byte.
DecompressWrite_PastEOF ==
    /\ dpc = "loop"
    /\ ~end_of_file
    /\ output' = Append(output, byte % 256)
    /\ tree_part' = Head(ctree)
    /\ end_of_file' = FALSE
    /\ curPath' = <<>>
    /\ dpc' = "decode"
    /\ UNCHANGED <<tree, input, stream, rpos, byte>>
    /\ UNCHANGED cvars

\* util.py 88-92: byte is not None: writebits(byte, 8), next decode_byte call.
DecompressWrite ==
    /\ dpc = "loop"
    /\ byte # None
    /\ output' = Append(output, byte % 256)
    /\ tree_part' = read_tree(ctree)
    /\ end_of_file' = FALSE
    /\ curPath' = <<>>
    /\ dpc' = "decode"
    /\ UNCHANGED <<tree, input, stream, rpos, byte>>
    /\ UNCHANGED cvars

\* util.py 88, 94-95: byte is None: leave the loop, flush, return.
DecompressFinish ==
    /\ dpc = "loop"
    /\ byte = None
    /\ dpc' = "done"
    /\ UNCHANGED <<tree, input, stream, rpos, tree_part, end_of_file, curPath, byte, output>>
    /\ UNCHANGED cvars

Decompress == DecompressStart \/ DecodeEOF \/ DecodeBit \/ DecompressWrite \/ DecompressFinish

Next == CompressStart \/ CompressByte \/ CompressEOF \/ Transfer \/ Decompress

Spec == Init /\ [][Next]_vars

FairSpec == Spec /\ WF_vars(Next)

\* decompress applied to a pickled tree followed by an arbitrary bit source.
InitDecode ==
    /\ tree \in Trees
    /\ stream \in SeqsUpTo(Bit, MaxBits)
    /\ input = <<>>
    /\ cpc = "none"
    /\ ipos = 0
    /\ table = EmptyTable
    /\ ctree = <<tree>>
    /\ cbits = <<>>
    /\ dpc = "start"
    /\ DecompressIdle

NextDecode == DecompressStart \/ DecodeEOF \/ DecodeBit \/ DecompressWrite \/ DecompressFinish

SpecDecode == InitDecode /\ [][NextDecode]_vars

FairSpecDecode == SpecDecode /\ WF_vars(NextDecode)

\* ======================================================================
\* Reference notions, defined on the tree alone (independent of the table
\* and of the decoder).
\* ======================================================================
NoNode == [kind |-> "nil"]

\* The node reached from t by following p (0 = left, 1 = right).
RECURSIVE NodeAt(_, _)
NodeAt(t, p) ==
    IF p = <<>> THEN t
    ELSE IF t.kind # "branch" THEN NoNode
    ELSE NodeAt(IF Head(p) = 0 THEN t.left ELSE t.right, Tail(p))

\* The paths from the root of t to the leaves holding v.
RECURSIVE PathsTo(_, _)
PathsTo(t, v) ==
    IF IsLeaf(t) THEN (IF t.value = v THEN {<<>>} ELSE {})
    ELSE {<<0>> \o p : p \in PathsTo(t.left, v)} \cup {<<1>> \o p : p \in PathsTo(t.right, v)}

HasLeaf(t, v) == PathsTo(t, v) # {}

\* The bit path from the root of t to the leaf holding v.
PathOf(t, v) == IF HasLeaf(t, v) THEN CHOOSE p \in PathsTo(t, v) : TRUE ELSE <<>>

\* Concatenation of the paths of the bytes of s.
RECURSIVE CodeBits(_, _)
CodeBits(t, s) == IF s = <<>> THEN <<>> ELSE PathOf(t, Head(s)) \o CodeBits(t, Tail(s))

\* The complete code stream of s: every byte's path, then the EOF path.
Encoded(t, s) == CodeBits(t, s) \o PathOf(t, None)

IsPrefix(a, b) == Len(a) <= Len(b) /\ SubSeq(b, 1, Len(a)) = a

Covers(t, s) == \A i \in 1..Len(s) : HasLeaf(t, s[i])

Uncut == Len(stream) = Len(cbits)

RoundUp8(n) == ((n + 7) \div 8) * 8

RECURSIVE SumPathLen(_, _)
SumPathLen(tb, s) == IF s = <<>> THEN 0 ELSE Len(tb[Head(s)]) + SumPathLen(tb, Tail(s))

\* ======================================================================
\* Claims
\* ======================================================================

\* C1 (round trip): for a valid tree covering the input, decompress applied
\* to the complete output of compress writes exactly the input bytes.
C1_RoundTrip ==
    (dpc = "done" /\ cpc = "done" /\ Uncut /\ ValidTree(tree) /\ Covers(tree, input))
        => output = input

C1_Witness ==
    /\ dpc = "done" /\ cpc = "done" /\ Uncut
    /\ Len(input) >= 2 /\ input[1] # input[2]
    /\ output = input

\* C2 (malformed stream): decompress never completes normally after the bit
\* source ran out before the end-of-stream leaf, leaving a short output.
C2_NoSilentTruncation ==
    ~(dpc = "done" /\ cpc = "done" /\ end_of_file /\ Len(output) < Len(input))

\* C3 (single leaf): with a tree that is a single Leaf, decode_byte reads no
\* bit and returns the leaf's value, whatever the bit source contains.
C3_SingleLeafZeroBits ==
    (IsLeaf(tree) /\ dpc \in {"decode", "loop", "done", "AttributeError"})
        => /\ rpos = 0
           /\ dpc # "AttributeError"
           /\ (dpc \in {"loop", "done"} => byte = tree.value)

\* C4 (sentinel termination): on a complete stream produced by compress,
\* decompress terminates with exactly Len(input) bytes written, having read
\* exactly the code bits (every byte's path and the EOF path) and none of
\* the pad bits.
C4_SentinelTermination ==
    (dpc = "start" /\ Uncut)
        ~> (dpc = "done" /\ Len(output) = Len(input) /\ rpos = Len(Encoded(tree, input)))

C4_Witness ==
    /\ dpc = "done" /\ Uncut
    /\ Len(input) >= 1
    /\ Len(output) = Len(input)
    /\ rpos < Len(stream)

\* C5 (output ordering): the tree is written before any payload bit; the
\* payload is the paths of the bytes read so far, in input order; on
\* completion it is the paths of all bytes, then the EOF path once, then
\* only (fewer than 8) pad bits.
C5_OutputOrdering ==
    /\ Len(ctree) <= 1
    /\ (cbits # <<>> => ctree = <<tree>>)
    /\ (cpc = "loop" => cbits = CodeBits(tree, SubSeq(input, 1, ipos)))
    /\ (cpc = "done" =>
            /\ ctree = <<tree>>
            /\ ipos = Len(input)
            /\ IsPrefix(Encoded(tree, input), cbits)
            /\ Len(cbits) - Len(Encoded(tree, input)) < 8)

C5_Witness ==
    /\ cpc = "done"
    /\ Len(input) >= 2 /\ input[1] # input[2]
    /\ cbits = flush(PathOf(tree, input[1]) \o PathOf(tree, input[2])
                        \o CodeBits(tree, SubSeq(input, 3, Len(input))) \o PathOf(tree, None))
    /\ Len(PathOf(tree, None)) >= 1

\* C6 (byte alignment): after compress completes, the payload length is the
\* sum of the emitted path lengths rounded up to a multiple of 8, and every
\* bit after the last path bit is zero.
C6_ByteAlignment ==
    cpc = "done" =>
        LET n == SumPathLen(table, input) + Len(table[None])
        IN  /\ Len(cbits) = RoundUp8(n)
            /\ \A i \in (n + 1)..Len(cbits) : cbits[i] = 0

C6_Witness ==
    /\ cpc = "done"
    /\ SumPathLen(table, input) + Len(table[None]) \in 1..7
    /\ Len(cbits) = 8
    /\ cbits[SumPathLen(table, input) + Len(table[None])] = 1

\* C7 (unknown symbol): when the next input byte has no table entry, the
\* step of compress ends in the (uncaught) KeyError state without emitting
\* anything; that state is final: compress never resumes or completes.
C7_UnknownSymbol ==
    [][/\ (cpc = "loop" /\ ipos < Len(input) /\ input[ipos + 1] \notin DOMAIN table)
            => (cpc' = "KeyError" /\ cbits' = cbits)
       /\ (cpc = "KeyError" => (cpc' = "KeyError" /\ cbits' = cbits /\ dpc' = "idle"))]_vars

C7_Witness ==
    /\ cpc = "KeyError"
    /\ ipos >= 2
    /\ input[ipos] \notin DOMAIN table
    /\ None \in DOMAIN table
    /\ cbits # <<>>

\* C8 (prefix-free table): in the encoding table of a valid tree no
\* symbol's path is a prefix of another symbol's path.
C8_PrefixFree ==
    (cpc \in {"loop", "done", "KeyError"} /\ ValidTree(tree)) =>
        \A a, b \in DOMAIN table : a # b => ~IsPrefix(table[a], table[b])

C8_Witness ==
    /\ cpc = "loop"
    /\ ValidTree(tree)
    /\ Cardinality(DOMAIN table) = 3
    /\ \E a \in DOMAIN table : Len(table[a]) = 1

\* C9 (decode_byte): with an Internal root, a call follows the bits from the
\* root (0 = left, 1 = right), is never back at the root nor at a leaf
\* mid-path, never fails, and returns: either the value of the first leaf
\* reached, having consumed exactly the bits of that leaf's path, or None
\* when the bits ran out before a leaf.
C9_Safety ==
    ~IsLeaf(tree) =>
        /\ dpc # "AttributeError"
        /\ (dpc \in {"decode", "loop"} =>
                /\ Len(curPath) <= rpos
                /\ curPath = SubSeq(stream, rpos - Len(curPath) + 1, rpos))
        /\ (dpc = "decode" =>
                /\ tree_part = NodeAt(tree, curPath)
                /\ tree_part.kind = "branch"
                /\ (curPath # <<>> => tree_part # tree))
        /\ (dpc = "loop" /\ ~end_of_file =>
                /\ NodeAt(tree, curPath) = TreeLeaf(byte)
                /\ \A k \in 0..(Len(curPath) - 1) :
                        NodeAt(tree, SubSeq(curPath, 1, k)).kind = "branch")
        /\ (dpc = "loop" /\ end_of_file =>
                /\ byte = None
                /\ rpos = Len(stream)
                /\ NodeAt(tree, curPath).kind = "branch")

C9_DecodeByte ==
    /\ []C9_Safety
    /\ ((dpc = "decode" /\ ~IsLeaf(tree)) ~> (dpc = "loop"))

C9_Witness ==
    /\ ~IsLeaf(tree)
    /\ dpc = "loop" /\ ~end_of_file
    /\ Len(curPath) = 2
    /\ rpos = 3
    /\ byte # None

\* C10 (truncated stream): for a tree of at least two leaves and a payload
\* of compress cut at any bit position, decompress terminates without
\* raising, and its output is the prefix of the input made of exactly the
\* bytes whose complete codes lie within the remaining bits.
C10_TruncatedPrefix ==
    (dpc = "start" /\ ~IsLeaf(tree))
        ~> /\ dpc = "done"
           /\ IsPrefix(output, input)
           /\ Len(output) = Cardinality({k \in 1..Len(input) :
                    Len(CodeBits(tree, SubSeq(input, 1, k))) <= Len(stream)})

C10_Witness ==
    /\ dpc = "done"
    /\ ~IsLeaf(tree)
    /\ ~Uncut
    /\ end_of_file
    /\ curPath # <<>>
    /\ Len(output) >= 1
    /\ Len(output) < Len(input)

====
